---- MODULE Spec2Model ----
(***************************************************************************)
(* Model of core/calibration.py: the calibration loaders, the two-phase    *)
(* life cycle of a CCRadarCalibration object (construction, then           *)
(* load_waveform_config) and the derivations that callers request from it. *)
(*                                                                         *)
(* Numbers.  Python floats are modelled as exact decimal-scaled rationals  *)
(* [n, d, e] standing for (n / d) * 10^e, so that the unit conversions     *)
(* of the waveform loader (times 1e+9, 1e+3, 1e+12, 1e-6, over 1e9) are    *)
(* exponent shifts that a comparison can tell apart.  Rounding is not      *)
(* modelled.                                                               *)
(*                                                                         *)
(* Arrays.  A numpy array is [shape, data]: its shape and its row-major    *)
(* (C order) buffer, a sequence indexed from 1.                            *)
(***************************************************************************)
EXTENDS Integers, Sequences, FiniteSets, TLC

\* ------------------------------------------------------------------ bounds
\* Largest transmit / receive channel count a descriptor may declare.
MaxTx == 2
MaxRx == 2
\* Largest element count of a companion binary file.
MaxFileLen == 9
\* Number of caller threads sharing the calibration object.
NumThreads == 2

Threads == 1..NumThreads

\* ----------------------------------------------------------------- numbers
RECURSIVE GCD(_, _)
GCD(a, b) == IF b = 0 THEN a ELSE GCD(b, a % b)

Abs(x) == IF x < 0 THEN -x ELSE x

Min(a, b) == IF a <= b THEN a ELSE b

RECURSIVE Pow10(_)
Pow10(k) == IF k <= 0 THEN 1 ELSE 10 * Pow10(k - 1)

\* The number m * 10^k (a float literal such as 1e+9, 1e-6 or 0.5 = 5e-1).
NSci(m, k) == [n |-> m, d |-> 1, e |-> k]

\* An int, or a float holding an integral value.
NInt(i) == NSci(i, 0)

NIsZero(a) == a.n = 0

NMul(a, b) == [n |-> a.n * b.n, d |-> a.d * b.d, e |-> a.e + b.e]

\* a / b for b # 0 (the callers raise ZeroDivisionError first when b = 0).
NDiv(a, b) ==
    IF b.n < 0
    THEN [n |-> -(a.n * b.d), d |-> a.d * (-b.n), e |-> a.e - b.e]
    ELSE [n |-> a.n * b.d, d |-> a.d * b.n, e |-> a.e - b.e]

NAdd(a, b) ==
    LET m == Min(a.e, b.e)
    IN  [n |-> a.n * b.d * Pow10(a.e - m) + b.n * a.d * Pow10(b.e - m),
         d |-> a.d * b.d,
         e |-> m]

\* Lowest terms of n / d.
Reduce(a) ==
    LET g == GCD(Abs(a.n), a.d)
    IN  IF g = 0 THEN a ELSE [n |-> a.n \div g, d |-> a.d \div g, e |-> a.e]

\* The exponent folded into the fraction, one power of ten at a time and
\* cancelling as it goes: the unique [n, d, 0] in lowest terms of the value.
RECURSIVE Fold(_)
Fold(a) ==
    LET r == Reduce(a)
    IN  IF r.n = 0 THEN NInt(0)
        ELSE IF r.e > 0 THEN Fold([n |-> r.n * 10, d |-> r.d, e |-> r.e - 1])
        ELSE IF r.e < 0 THEN Fold([n |-> r.n, d |-> r.d * 10, e |-> r.e + 1])
        ELSE r

\* Equality of values (== on floats, rounding aside).
NEq(a, b) == Fold(a) = Fold(b)

\* Complex numbers: a + 1j * b.
Complex(a, b) == [re |-> a, im |-> b]

\* ------------------------------------------------------------------ arrays
RECURSIVE Prod(_)
Prod(s) == IF s = <<>> THEN 1 ELSE Head(s) * Prod(Tail(s))

\* np.fromfile(file, count=-1): every item of the file, as a 1-D array.
FromFile(bin) == [shape |-> <<Len(bin)>>, data |-> bin]

\* A faulty size test: a buffer longer than the shape needs is accepted (as
\* a read of just the first items would make it).
CanReshapeTruncating(a, shape) == Prod(shape) <= Len(a.data)

\* ndarray.reshape can be done when the sizes agree; it keeps the buffer.
CanReshape(a, shape) == Prod(shape) = Len(a.data)

Reshape(a, shape) == [shape |-> shape, data |-> a.data]

\* a[:, :, c] of a rank-3 array: the plane c of the last axis.
Plane(a, c) ==
    LET s1 == a.shape[1]
        s2 == a.shape[2]
        s3 == a.shape[3]
    IN  [shape |-> <<s1, s2>>,
         data  |-> [k \in 1..(s1 * s2) |-> a.data[(k - 1) * s3 + c + 1]]]

\* re + 1j * im, element-wise on two arrays of one shape.
ComplexOf(re, im) ==
    [shape |-> re.shape,
     data  |-> [k \in 1..Len(re.data) |-> Complex(re.data[k], im.data[k])]]

\* Row-major offset of a multi-index (0-based indices) into the buffer.
RECURSIVE Offset(_, _)
Offset(shape, idx) ==
    IF shape = <<>> THEN 0
    ELSE Head(idx) * Prod(Tail(shape)) + Offset(Tail(shape), Tail(idx))

\* a[idx]
At(a, idx) == a.data[Offset(a.shape, idx) + 1]

\* ------------------------------------------------------------------ inputs
\* A companion binary file: the items first, first + 1, ... (all distinct,
\* so that a misplaced item shows).
BinFile(len, first) == [i \in 1..len |-> first + i - 1]

Shapes == (1..MaxTx) \X (1..MaxRx)

\* Antenna descriptors (nrx, ntx, fdesign in GHz, the two layout tables).
DesignFrequencies == {0, 77}

AntennaDescriptors ==
    {[nrx |-> MaxRx, ntx |-> MaxTx, fdesign |-> f,
      rxl |-> <<<<0, 11, 0>>, <<1, 12, 0>>>>,
      txl |-> <<<<0, 0, 0>>, <<1, 4, 0>>>>] : f \in DesignFrequencies}

\* Coupling descriptors: nrx, ntx and the items of the file "data" names.
CouplingDescriptors ==
    {[nrx |-> s[2], ntx |-> s[1], data |-> BinFile(len, 1)] :
        s \in Shapes, len \in 0..MaxFileLen}

\* Phase/frequency descriptors: nrx, ntx and the items of the two files
\* that data.phase and data.frequency name.
PhaseDescriptors ==
    {[nrx |-> s[2], ntx |-> s[1],
      data |-> [phase |-> BinFile(lp, 2), frequency |-> BinFile(lf, 3)]] :
        s \in Shapes, lp \in 0..MaxFileLen, lf \in 0..MaxFileLen}

\* The keys WaveformConfiguration reads.
WaveformKeys ==
    {"numRx", "numTx", "numAdcSamples", "numLoops", "startFrequency_Ghz",
     "samplingFequency_ksps", "frequencySlope_MHz_us", "idleTime_us",
     "adcStartTime_us", "rampEndTime_us"}

WaveformJson(F, S, K, N) ==
    [numRx |-> 4, numTx |-> 3, numAdcSamples |-> N, numLoops |-> 16,
     startFrequency_Ghz |-> F, samplingFequency_ksps |-> K,
     frequencySlope_MHz_us |-> S, idleTime_us |-> 5,
     adcStartTime_us |-> 6, rampEndTime_us |-> 40]

\* A waveform resource with one required key absent.
WaveformJsonNoRate ==
    [numRx |-> 4, numTx |-> 3, numAdcSamples |-> 2, numLoops |-> 16,
     startFrequency_Ghz |-> 77, frequencySlope_MHz_us |-> 50,
     idleTime_us |-> 5, adcStartTime_us |-> 6, rampEndTime_us |-> 40]

\* What load_waveform_config finds at the path of its descriptor.
NoFile == [exists |-> FALSE]

FileOf(json) == [exists |-> TRUE, json |-> json]

WaveformFiles ==
    {NoFile, FileOf(WaveformJsonNoRate)}
    \cup {FileOf(WaveformJson(77, 50, K, N)) : K \in {0, 10000}, N \in {2, 3}}

\* The resources of the spacing computations: more values, larger ones.
WaveformFilesD ==
    {NoFile, FileOf(WaveformJsonNoRate)}
    \cup {FileOf(WaveformJson(F, S, K, N)) :
            F \in {60, 77}, S \in {30, 50}, K \in {0, 10000},
            N \in {128, 256}}

DesignFrequenciesD == {0, 1, 60, 77}

\* ----------------------------------------------------------------- loaders
Unset == [set |-> FALSE]

NoValue == [none |-> TRUE]

AntennaConfig(config) ==
    [set |-> TRUE, nrx |-> config.nrx, ntx |-> config.ntx,
     fdesign |-> config.fdesign, rxl |-> config.rxl, txl |-> config.txl]

\* CouplingCalibration.__init__ raises ValueError (from reshape).
CouplingRaises(config) ==
    ~CanReshape(FromFile(config.data), <<config.ntx, config.nrx, 2>>)

\* A faulty loader: the real and imaginary planes exchanged.
CouplingCalibrationSwapped(config) ==
    LET raw   == FromFile(config.data)
        pairs == Reshape(raw, <<config.ntx, config.nrx, 2>>)
        cplx  == ComplexOf(Plane(pairs, 1), Plane(pairs, 0))
    IN  [set |-> TRUE, nrx |-> config.nrx, ntx |-> config.ntx,
         data |-> Reshape(cplx, <<config.ntx, config.nrx, 1, 1>>)]

CouplingCalibration(config) ==
    LET raw   == FromFile(config.data)
        pairs == Reshape(raw, <<config.ntx, config.nrx, 2>>)
        cplx  == ComplexOf(Plane(pairs, 0), Plane(pairs, 1))
    IN  [set |-> TRUE, nrx |-> config.nrx, ntx |-> config.ntx,
         data |-> Reshape(cplx, <<config.ntx, config.nrx, 1, 1>>)]

\* PhaseCalibration.__init__ raises ValueError (from either reshape).
PhaseRaises(config) ==
    \/ ~CanReshape(FromFile(config.data.phase), <<config.ntx, config.nrx, 2>>)
    \/ ~CanReshape(FromFile(config.data.frequency), <<config.ntx, config.nrx>>)

PhaseCalibration(config) ==
    LET praw  == FromFile(config.data.phase)
        pairs == Reshape(praw, <<config.ntx, config.nrx, 2>>)
        fraw  == FromFile(config.data.frequency)
    IN  [set |-> TRUE, nrx |-> config.nrx, ntx |-> config.ntx,
         phase |-> ComplexOf(Plane(pairs, 0), Plane(pairs, 1)),
         frequency |-> Reshape(fraw, <<config.ntx, config.nrx>>)]

\* WaveformConfiguration.__init__ raises KeyError.
WaveformRaises(json) == ~(WaveformKeys \subseteq DOMAIN json)

\* A faulty loader: the sampling rate left in ksps (the factor 1e+3
\* forgotten).
WaveformConfigurationKsps(json) ==
    [set |-> TRUE,
     nrx |-> json.numRx,
     ntx |-> json.numTx,
     ns  |-> json.numAdcSamples,
     nc  |-> json.numLoops,
     fstart  |-> NMul(NInt(json.startFrequency_Ghz), NSci(1, 9)),
     fsample |-> NInt(json.samplingFequency_ksps),
     fslope  |-> NMul(NInt(json.frequencySlope_MHz_us), NSci(1, 12)),
     idle_time      |-> NMul(NInt(json.idleTime_us), NSci(1, -6)),
     adc_start_time |-> NMul(NInt(json.adcStartTime_us), NSci(1, -6)),
     ramp_end_time  |-> NMul(NInt(json.rampEndTime_us), NSci(1, -6))]

WaveformConfiguration(json) ==
    [set |-> TRUE,
     nrx |-> json.numRx,
     ntx |-> json.numTx,
     ns  |-> json.numAdcSamples,
     nc  |-> json.numLoops,
     fstart  |-> NMul(NInt(json.startFrequency_Ghz), NSci(1, 9)),
     fsample |-> NMul(NInt(json.samplingFequency_ksps), NSci(1, 3)),
     fslope  |-> NMul(NInt(json.frequencySlope_MHz_us), NSci(1, 12)),
     idle_time      |-> NMul(NInt(json.idleTime_us), NSci(1, -6)),
     adc_start_time |-> NMul(NInt(json.adcStartTime_us), NSci(1, -6)),
     ramp_end_time  |-> NMul(NInt(json.rampEndTime_us), NSci(1, -6))]

\* The inter-antenna spacing of load_waveform_config (fsample, fdesign # 0).
Spacing(wf, fdesign) ==
    LET fstart  == NDiv(wf.fstart, NSci(1, 9))
        fslope  == NDiv(wf.fslope, NSci(1, 9))
        fsample == wf.fsample
        stime   == NDiv(NInt(wf.ns), fsample)
    IN  NMul(NSci(5, -1),
             NDiv(NAdd(fstart, NDiv(NMul(fslope, stime), NInt(2))),
                  NInt(fdesign)))

\* ------------------------------------------------------------ derivations
\* The array get_phase_calibration returns.
PhaseMatrix(pfc) == Reshape(pfc.phase, <<pfc.ntx, pfc.nrx, 1, 1>>)

\* The array get_frequency_calibration returns (fsample # 0).  An entry
\* exp(-1j * theta) is held as its angle theta; for the rational angles of
\* this model exp(-1j * theta) = 1 exactly when theta = 0.
FrequencyMatrix(pfc, wf) ==
    LET ntx   == pfc.ntx
        nrx   == pfc.nrx
        fcal  == pfc.frequency
        ratio == NDiv(wf.fslope, wf.fsample)
        cal   == [k \in 1..Len(fcal.data) |->
                     NDiv(NMul(NInt(fcal.data[k]), ratio), NInt(wf.ns))]
        ramp  == [shape |-> <<ntx, nrx, wf.ns>>,
                  data  |-> [i \in 1..(Len(fcal.data) * wf.ns) |->
                                NMul(cal[((i - 1) \div wf.ns) + 1],
                                     NInt((i - 1) % wf.ns))]]
    IN  Reshape(ramp, <<ntx, nrx, 1, wf.ns>>)

\* ------------------------------------------------------------------- state
VARIABLES
    pc,                \* where the process is: "start", "antenna_loaded",
                       \* "coupling_loaded" (inside the constructors),
                       \* "constructed", "raised" (a constructor raised),
                       \* "exited" (exit(1) ended the process)
    exc,               \* the exception that ended the construction
    antenna,           \* self.antenna
    coupling,          \* self.coupling
    phase_freq_calib,  \* self.phase_freq_calib
    waveform,          \* self.waveform
    d,                 \* self.d
    couplingFile,      \* the descriptor CouplingCalibration was given
    phaseFile,         \* the descriptor PhaseCalibration was given
    lastLoad,          \* the latest load_waveform_config call: the resource
                       \* it was given, how it ended, and whether any call
                       \* so far returned normally
    last,              \* the latest read of d or derivation: its thread,
                       \* operation, outcome and returned value
    returned,          \* per derivation, the values it has returned since
                       \* self.waveform was last assigned
    readers            \* the threads those values were returned to

vars == <<pc, exc, antenna, coupling, phase_freq_calib, waveform, d,
          couplingFile, phaseFile, lastLoad, last, returned, readers>>

\* The data the calibration object owns.
owned == <<antenna, coupling, phase_freq_calib, waveform, d>>

Derivations == {"coupling", "phase", "frequency"}

NoLoad ==
    [called |-> FALSE, file |-> NoFile, entered |-> FALSE, kind |-> "none",
     succeeded |-> FALSE]

NoCall == [thread |-> 0, op |-> "none", kind |-> "none", value |-> NoValue]

NothingReturned == [op \in Derivations |-> {}]

Init ==
    /\ pc = "start"
    /\ exc = "none"
    /\ antenna = Unset
    /\ coupling = Unset
    /\ phase_freq_calib = Unset
    /\ waveform = Unset
    /\ d = Unset
    /\ couplingFile = Unset
    /\ phaseFile = Unset
    /\ lastLoad = NoLoad
    /\ last = NoCall
    /\ returned = NothingReturned
    /\ readers = {}

\* ------------------------------------------------------------ construction
\* SCRadarCalibration.__init__, first statement.
ConstructAntenna(config) ==
    /\ pc = "start"
    /\ antenna' = AntennaConfig(config)
    /\ pc' = "antenna_loaded"
    /\ UNCHANGED <<exc, coupling, phase_freq_calib, waveform, d, couplingFile,
                   phaseFile, lastLoad, last, returned, readers>>

\* SCRadarCalibration.__init__, second statement.
ConstructCoupling(config) ==
    /\ pc = "antenna_loaded"
    /\ couplingFile' = [set |-> TRUE, config |-> config]
    /\ IF CouplingRaises(config)
       THEN /\ pc' = "raised"
            /\ exc' = "ValueError"
            /\ UNCHANGED coupling
       ELSE /\ pc' = "coupling_loaded"
            /\ coupling' = CouplingCalibration(config)
            /\ UNCHANGED exc
    /\ UNCHANGED <<antenna, phase_freq_calib, waveform, d, phaseFile, lastLoad,
                   last, returned, readers>>

\* CCRadarCalibration.__init__, after super().__init__.
ConstructPhase(config) ==
    /\ pc = "coupling_loaded"
    /\ phaseFile' = [set |-> TRUE, config |-> config]
    /\ IF PhaseRaises(config)
       THEN /\ pc' = "raised"
            /\ exc' = "ValueError"
            /\ UNCHANGED phase_freq_calib
       ELSE /\ pc' = "constructed"
            /\ phase_freq_calib' = PhaseCalibration(config)
            /\ UNCHANGED exc
    /\ UNCHANGED <<antenna, coupling, waveform, d, couplingFile, lastLoad,
                   last, returned, readers>>

\* ---------------------------------------------------- load_waveform_config
\* A faulty branch: exit(1) left out, so that the call goes on to
\* WaveformConfiguration, whose open() raises FileNotFoundError.
WaveformFileNotFoundNoExit(file) ==
    /\ ~file.exists
    /\ UNCHANGED pc
    /\ lastLoad' = [called |-> TRUE, file |-> file, entered |-> TRUE,
                    kind |-> "FileNotFoundError",
                    succeeded |-> lastLoad.succeeded]
    /\ UNCHANGED <<waveform, d, returned, readers>>

\* The path does not exist: error(...) and exit(1).
WaveformFileNotFound(file) ==
    /\ ~file.exists
    /\ pc' = "exited"
    /\ lastLoad' = [called |-> TRUE, file |-> file, entered |-> FALSE,
                    kind |-> "SystemExit", succeeded |-> lastLoad.succeeded]
    /\ UNCHANGED <<waveform, d, returned, readers>>

\* The path exists: WaveformConfiguration(filepath), then the spacing.
WaveformFileFound(file) ==
    /\ file.exists
    /\ UNCHANGED pc
    /\ IF WaveformRaises(file.json)
       THEN /\ lastLoad' = [called |-> TRUE, file |-> file, entered |-> TRUE,
                            kind |-> "KeyError",
                            succeeded |-> lastLoad.succeeded]
            /\ UNCHANGED <<waveform, d, returned, readers>>
       ELSE LET wf == WaveformConfiguration(file.json)
                failed == NIsZero(wf.fsample) \/ antenna.fdesign = 0
            IN  /\ waveform' = wf
                /\ returned' = IF wf = waveform THEN returned
                               ELSE NothingReturned
                /\ readers' = IF wf = waveform THEN readers ELSE {}
                /\ IF failed
                   THEN /\ UNCHANGED d
                        /\ lastLoad' = [called |-> TRUE, file |-> file,
                                        entered |-> TRUE,
                                        kind |-> "ZeroDivisionError",
                                        succeeded |-> lastLoad.succeeded]
                   ELSE /\ d' = [set |-> TRUE,
                                 val |-> Spacing(wf, antenna.fdesign)]
                        /\ lastLoad' = [called |-> TRUE, file |-> file,
                                        entered |-> TRUE, kind |-> "ok",
                                        succeeded |-> TRUE]

load_waveform_config(file) ==
    /\ pc = "constructed"
    /\ \/ WaveformFileNotFound(file)
       \/ WaveformFileFound(file)
    /\ UNCHANGED <<exc, antenna, coupling, phase_freq_calib, couplingFile,
                   phaseFile, last>>

\* ------------------------------------------------------- calls of a thread
Returns(t, op, value) ==
    /\ last' = [thread |-> t, op |-> op, kind |-> "ok", value |-> value]
    /\ returned' = [returned EXCEPT ![op] = @ \cup {value}]
    /\ readers' = readers \cup {t}

Raises(t, op, kind) ==
    /\ last' = [thread |-> t, op |-> op, kind |-> kind, value |-> NoValue]
    /\ UNCHANGED <<returned, readers>>

get_coupling_calibration(t) ==
    /\ pc = "constructed"
    /\ Returns(t, "coupling", coupling.data)
    /\ UNCHANGED <<pc, exc, antenna, coupling, phase_freq_calib, waveform, d,
                   couplingFile, phaseFile, lastLoad>>

\* A faulty derivation: the owned array reshaped in place (pm.shape = ...).
get_phase_calibration_inplace(t) ==
    /\ pc = "constructed"
    /\ Returns(t, "phase", PhaseMatrix(phase_freq_calib))
    /\ phase_freq_calib' =
          [phase_freq_calib EXCEPT !.phase = PhaseMatrix(phase_freq_calib)]
    /\ UNCHANGED <<pc, exc, antenna, coupling, waveform, d, couplingFile,
                   phaseFile, lastLoad>>

get_phase_calibration(t) ==
    /\ pc = "constructed"
    /\ Returns(t, "phase", PhaseMatrix(phase_freq_calib))
    /\ UNCHANGED <<pc, exc, antenna, coupling, phase_freq_calib, waveform, d,
                   couplingFile, phaseFile, lastLoad>>

\* A faulty derivation: a missing waveform read as "no samples", giving an
\* empty matrix instead of an error.
get_frequency_calibration_default(t) ==
    /\ pc = "constructed"
    /\ IF ~waveform.set
       THEN Returns(t, "frequency",
                    [shape |-> <<phase_freq_calib.ntx, phase_freq_calib.nrx,
                                 1, 0>>,
                     data |-> <<>>])
       ELSE IF NIsZero(waveform.fsample)
       THEN Raises(t, "frequency", "ZeroDivisionError")
       ELSE Returns(t, "frequency",
                    FrequencyMatrix(phase_freq_calib, waveform))
    /\ UNCHANGED <<pc, exc, antenna, coupling, phase_freq_calib, waveform, d,
                   couplingFile, phaseFile, lastLoad>>

get_frequency_calibration(t) ==
    /\ pc = "constructed"
    /\ IF ~waveform.set
       THEN Raises(t, "frequency", "AttributeError")
       ELSE IF NIsZero(waveform.fsample)
       THEN Raises(t, "frequency", "ZeroDivisionError")
       ELSE Returns(t, "frequency",
                    FrequencyMatrix(phase_freq_calib, waveform))
    /\ UNCHANGED <<pc, exc, antenna, coupling, phase_freq_calib, waveform, d,
                   couplingFile, phaseFile, lastLoad>>

\* A faulty read: an unset d read as a default value.
ReadD_default(t) ==
    /\ pc = "constructed"
    /\ last' = [thread |-> t, op |-> "d", kind |-> "ok",
                value |-> IF d.set THEN d.val ELSE NSci(5, -1)]
    /\ UNCHANGED <<returned, readers>>
    /\ UNCHANGED <<pc, exc, antenna, coupling, phase_freq_calib, waveform, d,
                   couplingFile, phaseFile, lastLoad>>

\* A caller's read of the attribute d.
ReadD(t) ==
    /\ pc = "constructed"
    /\ IF d.set
       THEN /\ last' = [thread |-> t, op |-> "d", kind |-> "ok",
                        value |-> d.val]
            /\ UNCHANGED <<returned, readers>>
       ELSE Raises(t, "d", "AttributeError")
    /\ UNCHANGED <<pc, exc, antenna, coupling, phase_freq_calib, waveform, d,
                   couplingFile, phaseFile, lastLoad>>

\* ----------------------------------------------------------- specification
Next ==
    \/ \E config \in AntennaDescriptors : ConstructAntenna(config)
    \/ \E config \in CouplingDescriptors : ConstructCoupling(config)
    \/ \E config \in PhaseDescriptors : ConstructPhase(config)
    \/ \E file \in WaveformFiles : load_waveform_config(file)
    \/ \E t \in Threads : get_coupling_calibration(t)
    \/ \E t \in Threads : get_phase_calibration(t)
    \/ \E t \in Threads : get_frequency_calibration(t)
    \/ \E t \in Threads : ReadD(t)

Spec == Init /\ [][Next]_vars

\* The spacing computations alone: a constructed object (its antenna design
\* frequency drawn from DesignFrequenciesD) and the loads of WaveformFilesD.
FixedCoupling == [nrx |-> 1, ntx |-> 1, data |-> BinFile(2, 1)]

FixedPhase ==
    [nrx |-> 1, ntx |-> 1,
     data |-> [phase |-> BinFile(2, 2), frequency |-> BinFile(1, 3)]]

InitD ==
    /\ pc = "constructed"
    /\ exc = "none"
    /\ antenna \in {AntennaConfig([c EXCEPT !.fdesign = f]) :
                        c \in AntennaDescriptors, f \in DesignFrequenciesD}
    /\ coupling = CouplingCalibration(FixedCoupling)
    /\ phase_freq_calib = PhaseCalibration(FixedPhase)
    /\ waveform = Unset
    /\ d = Unset
    /\ couplingFile = [set |-> TRUE, config |-> FixedCoupling]
    /\ phaseFile = [set |-> TRUE, config |-> FixedPhase]
    /\ lastLoad = NoLoad
    /\ last = NoCall
    /\ returned = NothingReturned
    /\ readers = {}

NextD == \E file \in WaveformFilesD : load_waveform_config(file)

SpecD == InitD /\ [][NextD]_vars

C2_SpacingUndefinedUntilLoad ==
    /\ ~lastLoad.succeeded =>
          /\ ~d.set
          /\ last.op = "d" => (last.kind = "AttributeError"
                               /\ last.value = NoValue)
    /\ lastLoad.kind = "ok" => d.set

C2_Witness ==
    /\ last.op = "d"
    /\ last.kind = "AttributeError"
    /\ lastLoad.kind = "ok"
    /\ d.set

CMul(a, b) ==
    Complex(a.re * b.re - a.im * b.im, a.re * b.im + a.im * b.re)

\* C3 as stated: the matrix get_phase_calibration returns holds, for every
\* channel pair k, the ratio sample[0] / sample[k] of the loaded phase
\* samples (so value[k] * sample[k] = sample[0]), and its reference entry
\* is 1+0i when sample[0] is not zero.
C3_PhaseRatioToReference ==
    (pc = "constructed" /\ last.op = "phase" /\ last.kind = "ok") =>
        LET sample == phase_freq_calib.phase.data
        IN  /\ \A k \in 1..Len(sample) :
                  sample[k] # Complex(0, 0) =>
                      CMul(last.value.data[k], sample[k]) = sample[1]
            /\ sample[1] # Complex(0, 0) =>
                  At(last.value, <<0, 0, 0, 0>>) = Complex(1, 0)

\* C4 as stated: in the matrix get_frequency_calibration returns, the ramp
\* angle of the reference channel is 0 at every sample index n in [0..ns),
\* whatever the value of freq_samples[0].
C4_ReferenceRampZero ==
    (pc = "constructed" /\ last.op = "frequency" /\ last.kind = "ok") =>
        \A n \in 0..(waveform.ns - 1) :
            NIsZero(At(last.value, <<0, 0, 0, n>>))

\* C5: a coupling load whose binary file holds exactly ntx*nrx*2 values
\* yields a matrix of shape (ntx, nrx, 1, 1) whose entry (t, r) has the file
\* value at row-major position (t, r, 0) as real part and the one at
\* (t, r, 1) as imaginary part; get_coupling_calibration returns this
\* matrix.
C5_CouplingLayout ==
    (couplingFile.set
        /\ Len(couplingFile.config.data)
             = couplingFile.config.ntx * couplingFile.config.nrx * 2) =>
        LET ntx  == couplingFile.config.ntx
            nrx  == couplingFile.config.nrx
            file == couplingFile.config.data
        IN  /\ coupling.set
            /\ coupling.data.shape = <<ntx, nrx, 1, 1>>
            /\ Len(coupling.data.data) = ntx * nrx
            /\ \A t \in 0..(ntx - 1), r \in 0..(nrx - 1) :
                  /\ At(coupling.data, <<t, r, 0, 0>>).re
                        = file[(t * nrx + r) * 2 + 1]
                  /\ At(coupling.data, <<t, r, 0, 0>>).im
                        = file[(t * nrx + r) * 2 + 2]
            /\ (last.op = "coupling" /\ last.kind = "ok")
                  => last.value = coupling.data

C5_Witness ==
    /\ coupling.set
    /\ coupling.ntx = 2
    /\ coupling.nrx = 2
    /\ last.op = "coupling"
    /\ last.kind = "ok"

\* Whether a loader was given a binary file of the wrong element count.
CouplingCountWrong ==
    /\ couplingFile.set
    /\ Len(couplingFile.config.data)
          # couplingFile.config.ntx * couplingFile.config.nrx * 2

PhaseCountWrong ==
    /\ phaseFile.set
    /\ \/ Len(phaseFile.config.data.phase)
             # phaseFile.config.ntx * phaseFile.config.nrx * 2
       \/ Len(phaseFile.config.data.frequency)
             # phaseFile.config.ntx * phaseFile.config.nrx

DirectSpacing(F, S, K, N, fdesign) ==
    NMul(NSci(5, -1),
         NDiv(NAdd(NInt(F), NDiv(NInt(S * N), NInt(2 * K))), NInt(fdesign)))

\* C7: after a load that returns normally, d equals the spacing computed
\* directly from the raw device-unit values of the resource,
\* 0.5 * (F + S*N/(2*K)) / fdesign; for F=77, S=50, K=10000, N=256 and
\* fdesign=77 it is 0.5 * (77 + 0.64) / 77 = 1941/3850.
C7_SpacingUnitInvariant ==
    lastLoad.kind = "ok" =>
        LET json == lastLoad.file.json
        IN  /\ NEq(d.val,
                   DirectSpacing(json.startFrequency_Ghz,
                                 json.frequencySlope_MHz_us,
                                 json.samplingFequency_ksps,
                                 json.numAdcSamples,
                                 antenna.fdesign))
            /\ (json = WaveformJson(77, 50, 10000, 256)
                    /\ antenna.fdesign = 77)
                  => Fold(d.val) = [n |-> 1941, d |-> 3850, e |-> 0]

C7_Witness ==
    /\ lastLoad.kind = "ok"
    /\ lastLoad.file = FileOf(WaveformJson(77, 50, 10000, 256))
    /\ antenna.fdesign = 77
    /\ d.set

\* C8: a load_waveform_config whose resource path does not exist ends the
\* process (SystemExit) without constructing WaveformConfiguration, and
\* leaves waveform and d exactly as they were before the call.
C8_MissingWaveformFileExits ==
    [][(pc = "constructed" /\ lastLoad'.called /\ ~lastLoad'.file.exists) =>
          /\ pc' = "exited"
          /\ lastLoad'.kind = "SystemExit"
          /\ ~lastLoad'.entered
          /\ waveform' = waveform
          /\ d' = d]_vars

C8_Witness ==
    /\ pc = "exited"
    /\ lastLoad.kind = "SystemExit"
    /\ waveform.set
    /\ d.set

\* C9: the derivations are pure: no call of get_coupling_calibration,
\* get_phase_calibration or get_frequency_calibration, by any thread and in
\* any order, changes the owned antenna, coupling, phase/frequency profile,
\* waveform or d, and all calls of one derivation on the loaded object
\* return one and the same value.
C9_DerivationsPure ==
    /\ [](\A op \in Derivations : Cardinality(returned[op]) <= 1)
    /\ [][(pc = "constructed" /\ pc' = pc /\ lastLoad' = lastLoad)
             => owned' = owned]_vars

C9_Witness ==
    /\ Cardinality(readers) >= 2
    /\ waveform.set
    /\ \A op \in Derivations : returned[op] # {}

\* C10 as stated: the object holds waveform parameters if and only if it
\* holds d, and d is the spacing computed from the waveform it holds and
\* the antenna design frequency.
C10_WaveformAndSpacingAgree ==
    pc \in {"constructed", "exited"} =>
        /\ waveform.set <=> d.set
        /\ d.set => d.val = Spacing(waveform, antenna.fdesign)

====
